---- MODULE Spec2Model ----
(***************************************************************************)
(* Model of get_vm_data.py: the inventory of the running guests of a       *)
(* Proxmox cluster (VMList), the per-guest record builder (VM), the schema *)
(* computation (QemuConfig), and the CSV export driven by main().          *)
(*                                                                         *)
(* A Python dict is an insertion-ordered mapping; it is modelled as a      *)
(* sequence of [k, v] entries with pairwise distinct k.  A value is a      *)
(* record [kind, s, n, kv] so that strings, integers and the summary       *)
(* string built by key_value_pair() have one shape.                        *)
(***************************************************************************)
EXTENDS Integers, Sequences, FiniteSets, TLC

\* ------------------------------------------------------------------ bounds
MaxNodes == 2
MaxGuests == 3
MaxDisks == 2
MaxCalls == 3
\* number of nested VMList.get() frames the interpreter allows before it
\* raises RecursionError
RecursionLimit == 3

\* ------------------------------------------------------------------ values
StrV(s) == [kind |-> "str", s |-> s, n |-> 0, kv |-> <<>>]
IntV(n) == [kind |-> "int", s |-> "", n |-> n, kv |-> <<>>]
KvStr(kv) == [kind |-> "kv", s |-> "", n |-> 0, kv |-> kv]
Tok(n, s) == [n |-> n, s |-> s]

Range(q) == {q[i] : i \in 1..Len(q)}
SeqsUpTo(S, n) == UNION {[1..k -> S] : k \in 0..n}

\* ------------------------------------------------------------------ dicts
Entry(k, v) == [k |-> k, v |-> v]
KeysOf(d) == [i \in 1..Len(d) |-> d[i].k]
KeySet(d) == {d[i].k : i \in 1..Len(d)}
Has(d, k) == k \in KeySet(d)
Get(d, k) == LET i == CHOOSE j \in 1..Len(d) : d[j].k = k IN d[i].v

\* d[k] = v : an existing key keeps its position, a new key goes last
Put(d, k, v) ==
  IF Has(d, k)
  THEN [i \in 1..Len(d) |-> IF d[i].k = k THEN Entry(k, v) ELSE d[i]]
  ELSE Append(d, Entry(k, v))

\* d |= e   and   {**d, **e}
RECURSIVE Update(_, _)
Update(d, e) ==
  IF Len(e) = 0 THEN d
  ELSE Update(Put(d, Head(e).k, Head(e).v), Tail(e))

\* key_value_pair(): "k1=v1,k2=v2,..." in the iteration order of data; the
\* string is kept as its sequence of key=value tokens
key_value_pair(data) == KvStr(data)

\* ------------------------------------------------------------------ guests
\* a disk entry of the agent's get-fsinfo report
Disk(t, mp, hasTotal, total, used) ==
  [type |-> t, mountpoint |-> mp, hasTotal |-> hasTotal, total |-> total, used |-> used]

\* the answer of the agent filesystem query:
\*   "fail"     the query raises ResourceException
\*   "noresult" a mapping without the key "result"
\*   "error"    result carries an error object
\*   "disks"    result is a sequence of disk entries
Fs(kind, disks) == [kind |-> kind, disks |-> disks]
NoFs == Fs("noresult", <<>>)

Guest(status, config, fs) == [status |-> status, config |-> config, fs |-> fs]

DiskRoot == Disk("ext4", "/", TRUE, 1000, 400)
DiskData == Disk("xfs", "/data", TRUE, 500, 500)
DiskCd == Disk("CDFS", "/cd", TRUE, 700, 700)
DiskUdf == Disk("UDF", "/", TRUE, 300, 300)
DiskNoTotal == Disk("ext4", "/boot", FALSE, 0, 0)
DiskZero == Disk("ext4", "/z", TRUE, 0, 0)

CfgA == <<Entry("name", StrV("a")), Entry("agent", StrV("0"))>>
CfgB == <<Entry("agent", StrV("1")), Entry("name", StrV("b")), Entry("notes", StrV("n"))>>
CfgF == <<Entry("name", StrV("f")), Entry("agent", StrV("1")), Entry("tags", StrV("t"))>>
CfgS == <<Entry("name", StrV("s")), Entry("agent", StrV("1"))>>
CfgK == <<Entry("name", StrV("k"))>>
CfgZ == <<Entry("name", StrV("z")), Entry("agent", StrV("1"))>>

GA == Guest("running", CfgA, NoFs)
GB == Guest("running", CfgB, Fs("disks", <<DiskRoot, DiskCd>>))
GF == Guest("running", CfgF, Fs("fail", <<>>))
GS == Guest("stopped", CfgS, NoFs)
GK == Guest("running", CfgK, NoFs)
GZ == Guest("running", CfgZ, Fs("disks", <<DiskZero, DiskRoot>>))

\* the guests a cluster of several nodes is drawn from
Profiles == {GA, GB, GF, GS, GK, GZ}

\* the filesystem reports a single agent-enabled guest is drawn from
DiskSet == {DiskRoot, DiskData, DiskCd, DiskUdf, DiskNoTotal, DiskZero}
Reports ==
  {Fs("fail", <<>>), Fs("noresult", <<>>), Fs("error", <<>>)}
    \cup {Fs("disks", ds) : ds \in SeqsUpTo(DiskSet, MaxDisks)}
RichGuests == {Guest("running", CfgB, r) : r \in Reports}

\* the ways to cut a listing of len guests into n consecutive node listings
Cuts(len, n) ==
  {c \in [1..(n - 1) -> 0..len] : \A i \in 1..(n - 2) : c[i] <= c[i + 1]}
Split(f, c, n) ==
  [i \in 1..n |->
     SubSeq(f, (IF i = 1 THEN 0 ELSE c[i - 1]) + 1, IF i = n THEN Len(f) ELSE c[i])]

\* a cluster: for every node, the guests proxmox.nodes(node).qemu.get() lists;
\* up to MaxNodes nodes with up to MaxGuests guests in all, or one node with
\* one agent-enabled guest and any of the reports
Clusters ==
  UNION {{Split(f, c, n) : c \in Cuts(Len(f), n)} :
           f \in SeqsUpTo(Profiles, MaxGuests), n \in 1..MaxNodes}
    \cup {<<(<<g>>)>> : g \in RichGuests}

\* ---------------------------------------------------------------------- VM
\* VM.get_config(): the guest's configuration (fetched once, then cached)
get_config(g) == g.config

\* VM.has_agent(): config["agent"] == "1"; a configuration without the key
\* agent raises KeyError
has_agent(g) ==
  IF ~Has(get_config(g), "agent") THEN [out |-> "KeyError", agent |-> FALSE]
  ELSE [out |-> "ok", agent |-> Get(get_config(g), "agent") = StrV("1")]

\* get_fs_info() with the except clause missing: the ResourceException of the
\* query leaves the method
get_fs_infoNoExcept(g) ==
  LET a == has_agent(g) IN
  IF a.out # "ok" THEN [out |-> a.out, fsinfo |-> NoFs, fsq |-> FALSE, fsfail |-> FALSE]
  ELSE IF ~a.agent THEN [out |-> "ok", fsinfo |-> NoFs, fsq |-> FALSE, fsfail |-> FALSE]
  ELSE IF g.fs.kind = "fail"
  THEN [out |-> "ResourceException", fsinfo |-> NoFs, fsq |-> TRUE, fsfail |-> TRUE]
  ELSE [out |-> "ok", fsinfo |-> g.fs, fsq |-> TRUE, fsfail |-> FALSE]

\* VM.get_fs_info(): no query without agent; a ResourceException of the
\* query is logged and the empty mapping self.fs_info is returned
get_fs_info(g) ==
  LET a == has_agent(g) IN
  IF a.out # "ok" THEN [out |-> a.out, fsinfo |-> NoFs, fsq |-> FALSE, fsfail |-> FALSE]
  ELSE IF ~a.agent THEN [out |-> "ok", fsinfo |-> NoFs, fsq |-> FALSE, fsfail |-> FALSE]
  ELSE IF g.fs.kind = "fail" THEN [out |-> "ok", fsinfo |-> NoFs, fsq |-> TRUE, fsfail |-> TRUE]
  ELSE [out |-> "ok", fsinfo |-> g.fs, fsq |-> TRUE, fsfail |-> FALSE]

\* the type test with UDF forgotten
SkipTypeOnlyCdfs(t) == t \in {"CDFS"}

\* disk["type"] not in ["CDFS", "UDF"] is the condition to keep the entry
SkipType(t) == t \in {"CDFS", "UDF"}

\* the per-mountpoint mapping extrainfo of one kept disk entry;
\* precent-remaining is unused / total * 100 (the inputs divide exactly)
extrainfo(disk) ==
  LET unused_bytes == disk.total - disk.used IN
  << Entry("unused-bytes", Tok(unused_bytes, "")),
     Entry("used-bytes", Tok(disk.used, "")),
     Entry("total-bytes", Tok(disk.total, "")),
     Entry("precent-remaining",
           Tok((unused_bytes * 100) \div disk.total, "")),
     Entry("filesystem", Tok(0, disk.type)) >>

\* the loop over fsinfo["result"] of VM.get_extra_info() from entry i on,
\* followed by extraList |= {sum_used_bytes, sum_total_bytes, sum_unused_bytes}
RECURSIVE DiskLoop(_, _, _, _, _, _)
DiskLoop(disks, i, extraList, sum_used_bytes, sum_total_bytes, sum_unused_bytes) ==
  IF i > Len(disks)
  THEN [out |-> "ok",
        extra |-> Update(extraList,
                    << Entry("sum_used_bytes", IntV(sum_used_bytes)),
                       Entry("sum_total_bytes", IntV(sum_total_bytes)),
                       Entry("sum_unused_bytes", IntV(sum_unused_bytes)) >>)]
  ELSE LET disk == disks[i] IN
    IF SkipType(disk.type)
    THEN DiskLoop(disks, i + 1, extraList, sum_used_bytes, sum_total_bytes, sum_unused_bytes)
    ELSE IF ~disk.hasTotal
    THEN DiskLoop(disks, i + 1, extraList, sum_used_bytes, sum_total_bytes, sum_unused_bytes)
    ELSE IF disk.total = 0
    THEN [out |-> "ZeroDivisionError", extra |-> <<>>]
    ELSE DiskLoop(disks, i + 1,
           Put(extraList, disk.mountpoint, key_value_pair(extrainfo(disk))),
           sum_used_bytes + disk.used,
           sum_total_bytes + disk.total,
           sum_unused_bytes + (disk.total - disk.used))

\* VM.get_extra_info()
get_extra_info(g) ==
  LET f == get_fs_info(g) IN
  IF f.out # "ok"
  THEN [out |-> f.out, extra |-> <<>>, fsq |-> f.fsq, fsfail |-> f.fsfail]
  ELSE IF f.fsinfo.kind \in {"noresult", "error"}
  THEN [out |-> "ok", extra |-> <<>>, fsq |-> f.fsq, fsfail |-> f.fsfail]
  ELSE LET r == DiskLoop(f.fsinfo.disks, 1, <<>>, 0, 0, 0) IN
       [out |-> r.out, extra |-> r.extra, fsq |-> f.fsq, fsfail |-> f.fsfail]

\* VM(vmid, node, proxmox).get(): {**config, **extra_info}; nq counts the
\* remote queries issued (configuration fetch, agent filesystem fetch)
VM_get(g) ==
  LET x == get_extra_info(g) IN
  [g |-> g, out |-> x.out, extra |-> x.extra, fsq |-> x.fsq, fsfail |-> x.fsfail,
   rec |-> IF x.out = "ok" THEN Update(get_config(g), x.extra) ELSE <<>>,
   nq |-> IF x.fsq THEN 2 ELSE 1]

\* -------------------------------------------------------------- QemuConfig
RECURSIVE AppendNew(_, _)
AppendNew(keys, items) ==
  IF Len(items) = 0 THEN keys
  ELSE AppendNew(IF Head(items) \in Range(keys) THEN keys ELSE Append(keys, Head(items)),
                 Tail(items))

RECURSIVE ScanKeys(_, _, _)
ScanKeys(keys, l, i) ==
  IF i > Len(l) THEN keys ELSE ScanKeys(AppendNew(keys, KeysOf(l[i])), l, i + 1)

\* get_keys() seeded with the last record instead of the first
get_keysSeedLast(l) == ScanKeys(KeysOf(l[Len(l)]), l, 1)

\* QemuConfig.get_keys() on a non-empty list
get_keys(l) == ScanKeys(KeysOf(l[1]), l, 1)

\* ------------------------------------------------------------------ VMList
\* the loop body of normalise() for one record
RECURSIVE BackFill(_, _)
BackFill(vm, keys) ==
  IF Len(keys) = 0 THEN vm
  ELSE BackFill(IF Has(vm, Head(keys)) THEN vm ELSE Put(vm, Head(keys), StrV("")),
                Tail(keys))

\* normalise() with the schema taken from the first record only
normaliseFirstOnly(l) ==
  [i \in 1..Len(l) |-> BackFill(l[i], KeysOf(l[1]))]

\* VMList.normalise() on a non-empty list
normalise(l) ==
  LET keys == get_keys(l) IN [i \in 1..Len(l) |-> BackFill(l[i], keys)]

\* the test of VMList.get() that returns the cached list
GetCached(l) == Len(l) # 0

\* ------------------------------------------------------------------- state
VARIABLES
  cluster,   \* the remote cluster: per node, the guests its qemu listing returns
  nodeList,  \* NodeList.list, the cached node names
  list,      \* VMList.list, the accumulator of guest records
  pc,        \* "idle", "enum", "visit", "normalise", "raised" or "done"
  op,        \* the VMList method main called last: "get" or "keys"
  ni,        \* position of the loop over self.node.get()
  vi,        \* position of the loop over the guests of node ni
  depth,     \* number of nested VMList.get() frames
  ret,       \* what the last returned VMList.get() returned; <<>> before
  keysRet,   \* what the last returned VMList.keys() returned; <<>> before
  err,       \* the exception that left the last call, or "none"
  queries,   \* number of remote queries issued so far
  calls,     \* number of calls of get() and keys() main has made
  log,       \* one VM_get outcome per guest built in the last collection pass
  io,        \* the outcome of the write of CSV.output: "none", "ok", "IOError"
  file,      \* the contents of vmlist.csv
  exit       \* the exit code of the process: "none", "0" or "1"

vars == <<cluster, nodeList, list, pc, op, ni, vi, depth, ret, keysRet, err,
          queries, calls, log, io, file, exit>>

NoFile == [header |-> <<>>, rows |-> <<>>]

\* main() up to and including VMList(node, prox): the constructor has called
\* node.get(), which listed the nodes once and cached their names
Init ==
  /\ cluster \in Clusters
  /\ nodeList = [i \in 1..Len(cluster) |-> i]
  /\ list = <<>>
  /\ pc = "idle"
  /\ op = "get"
  /\ ni = 1
  /\ vi = 1
  /\ depth = 0
  /\ ret = <<>>
  /\ keysRet = <<>>
  /\ err = "none"
  /\ queries = 1
  /\ calls = 0
  /\ log = <<>>
  /\ io = "none"
  /\ file = NoFile
  /\ exit = "none"

\* VMList.get() without the test of the cache: every call collects again
VMList_getNoCache ==
  /\ pc = "idle"
  /\ calls < MaxCalls
  /\ calls' = calls + 1
  /\ op' = "get"
  /\ pc' = "enum"
  /\ ni' = 1
  /\ vi' = 1
  /\ depth' = 1
  /\ log' = <<>>
  /\ UNCHANGED <<cluster, nodeList, list, ret, keysRet, err, queries, io, file, exit>>

\* a call of VMList.get() by main (data = vm.get(), and any repetition of
\* it): the cached list, or a collection pass
VMList_get ==
  /\ pc = "idle"
  /\ calls < MaxCalls
  /\ calls' = calls + 1
  /\ op' = "get"
  /\ IF GetCached(list)
     THEN /\ ret' = list
          /\ pc' = "idle"
          /\ UNCHANGED <<ni, vi, depth, log>>
     ELSE /\ pc' = "enum"
          /\ ni' = 1
          /\ vi' = 1
          /\ depth' = 1
          /\ log' = <<>>
          /\ UNCHANGED ret
  /\ UNCHANGED <<cluster, nodeList, list, keysRet, err, queries, io, file, exit>>

\* a call of VMList.keys() by main: QemuConfig(self) calls vm.get() first
VMList_keys ==
  /\ pc = "idle"
  /\ calls < MaxCalls
  /\ calls' = calls + 1
  /\ op' = "keys"
  /\ IF GetCached(list)
     THEN /\ keysRet' = get_keys(list)
          /\ pc' = "idle"
          /\ UNCHANGED <<ni, vi, depth, log>>
     ELSE /\ pc' = "enum"
          /\ ni' = 1
          /\ vi' = 1
          /\ depth' = 1
          /\ log' = <<>>
          /\ UNCHANGED keysRet
  /\ UNCHANGED <<cluster, nodeList, list, ret, err, queries, io, file, exit>>

\* for node in self.node.get(): the node names come from the cache; the
\* guests of the node are listed by one remote query
Enumerate ==
  /\ pc = "enum"
  /\ IF ni > Len(nodeList)
     THEN /\ pc' = "normalise"
          /\ UNCHANGED <<vi, queries>>
     ELSE /\ pc' = "visit"
          /\ vi' = 1
          /\ queries' = queries + 1
  /\ UNCHANGED <<cluster, nodeList, list, op, ni, depth, ret, keysRet, err,
                 calls, log, io, file, exit>>

\* one iteration of the loop over the guests of node ni: a guest that is not
\* running is skipped; a record is built and appended; an exception of
\* VM.get() leaves VMList.get() and reaches main
Visit ==
  /\ pc = "visit"
  /\ IF vi > Len(cluster[nodeList[ni]])
     THEN /\ pc' = "enum"
          /\ ni' = ni + 1
          /\ UNCHANGED <<vi, list, log, queries, err, depth>>
     ELSE LET vm == cluster[nodeList[ni]][vi] IN
          IF vm.status # "running"
          THEN /\ vi' = vi + 1
               /\ UNCHANGED <<pc, ni, list, log, queries, err, depth>>
          ELSE LET data == VM_get(vm) IN
               /\ queries' = queries + data.nq
               /\ log' = Append(log, data)
               /\ IF data.out = "ok"
                  THEN /\ list' = Append(list, data.rec)
                       /\ vi' = vi + 1
                       /\ UNCHANGED <<pc, ni, err, depth>>
                  ELSE /\ pc' = "raised"
                       /\ err' = data.out
                       /\ depth' = 0
                       /\ UNCHANGED <<ni, vi, list>>
  /\ UNCHANGED <<cluster, nodeList, op, ret, keysRet, calls, io, file, exit>>

\* self.normalise() at the end of a pass.  QemuConfig(self) calls vm.get():
\* on an empty list that is a further collection pass one frame deeper,
\* until the interpreter raises RecursionError; on a non-empty list it
\* returns the list, the records are back-filled and every frame returns
Normalise ==
  /\ pc = "normalise"
  /\ IF ~GetCached(list)
     THEN IF depth >= RecursionLimit
          THEN /\ pc' = "raised"
               /\ err' = "RecursionError"
               /\ depth' = 0
               /\ UNCHANGED <<list, ni, vi, ret, keysRet, log>>
          ELSE /\ pc' = "enum"
               /\ ni' = 1
               /\ vi' = 1
               /\ depth' = depth + 1
               /\ log' = <<>>
               /\ UNCHANGED <<list, ret, keysRet, err>>
     ELSE /\ list' = normalise(list)
          /\ pc' = "idle"
          /\ depth' = 0
          /\ IF op = "get"
             THEN ret' = list' /\ UNCHANGED keysRet
             ELSE keysRet' = get_keys(list') /\ UNCHANGED ret
          /\ UNCHANGED <<ni, vi, err, log>>
  /\ UNCHANGED <<cluster, nodeList, op, queries, calls, io, file, exit>>

\* csv.DictWriter: the header row, then per record the value of every
\* header field
Rows(data, heading) ==
  [i \in 1..Len(data) |->
     [j \in 1..Len(heading) |->
        IF Has(data[i], heading[j]) THEN Get(data[i], heading[j]) ELSE StrV("")]]

\* main(): CSV.output("vmlist.csv", data, vm.keys()) and the return of
\* main.  An IOError of the write is caught and logged inside CSV.output
CSV_output ==
  /\ pc = "idle"
  /\ ret # <<>>
  /\ keysRet # <<>>
  /\ \E w \in {"ok", "IOError"} :
       /\ io' = w
       /\ file' = IF w = "ok" THEN [header |-> keysRet, rows |-> Rows(ret, keysRet)]
                  ELSE NoFile
  /\ pc' = "done"
  /\ exit' = "0"
  /\ UNCHANGED <<cluster, nodeList, list, op, ni, vi, depth, ret, keysRet, err,
                 queries, calls, log>>

\* main(): an exception of vm.get() or vm.keys() is not caught; the
\* interpreter reports it and exits with a non-zero code
MainAbort ==
  /\ pc = "raised"
  /\ pc' = "done"
  /\ exit' = "1"
  /\ UNCHANGED <<cluster, nodeList, list, op, ni, vi, depth, ret, keysRet, err,
                 queries, calls, log, io, file>>

Next ==
  \/ VMList_get
  \/ VMList_keys
  \/ Enumerate
  \/ Visit
  \/ Normalise
  \/ CSV_output
  \/ MainAbort

Spec == Init /\ [][Next]_vars

\* ------------------------------------------------------------- properties
RECURSIVE Flatten(_)
Flatten(c) == IF Len(c) = 0 THEN <<>> ELSE Head(c) \o Flatten(Tail(c))

IsRunning(g) == g.status = "running"
AllGuests == Flatten(cluster)
RunningGuests == SelectSeq(AllGuests, IsRunning)
NoneRunning == Len(RunningGuests) = 0

\* the guests the current pass has gone through, in enumeration order
Gone ==
  LET before == Len(Flatten(SubSeq(cluster, 1, ni - 1))) IN
  IF pc = "visit" THEN SubSeq(AllGuests, 1, before + vi - 1)
  ELSE IF pc = "enum" THEN SubSeq(AllGuests, 1, before)
  ELSE AllGuests

IsOk(e) == e.out = "ok"
OkLog == SelectSeq(log, IsOk)
AllOk == \A i \in 1..Len(log) : IsOk(log[i])
LogGuests == [i \in 1..Len(log) |-> log[i].g]

\* the records as they were built, before any back-fill
Built == [i \in 1..Len(OkLog) |-> OkLog[i].rec]
AllFields == UNION {KeySet(Built[i]) : i \in 1..Len(Built)}

AgentOff(config) == ~Has(config, "agent") \/ Get(config, "agent") # StrV("1")

\* C1: after VMList.get() has returned, every returned record has exactly the
\* fields of the Unified Schema (all fields of all built records): a field the
\* record lacked holds "", a field it had keeps its value.
C1_ReturnedRecordsUnified ==
  ret # <<>> =>
    /\ Len(ret) = Len(Built)
    /\ \A i \in 1..Len(ret) :
         /\ KeySet(ret[i]) = AllFields
         /\ \A k \in AllFields :
              Get(ret[i], k) = IF Has(Built[i], k) THEN Get(Built[i], k) ELSE StrV("")

C1_Witness ==
  /\ Len(ret) >= 2
  /\ \E i \in 1..Len(Built) : KeySet(Built[i]) # AllFields
  /\ \E i \in 1..Len(Built) : KeySet(Built[i]) \ KeySet(Built[1]) # {}

\* C2: with at least one node and no running guest, the call of get() or
\* keys() fails with the error "VM list empty" (a ValueError), CSV.output is
\* never reached and nothing is written.
C2_NoGuestFailsWithVMListEmpty ==
  NoneRunning =>
    /\ pc = "raised" => err = "ValueError: VM list empty"
    /\ io = "none"
    /\ file = NoFile

\* C3: once a call of get() has returned, every further call of get() returns
\* the same sequence, every call of keys() the same schema, and no further
\* remote query is issued.
C3_CachedAfterFirstGet ==
  [][ret # <<>> =>
       /\ ret' = ret
       /\ list' = list
       /\ queries' = queries
       /\ keysRet # <<>> => keysRet' = keysRet
       /\ pc' \in {"idle", "done"}]_vars

C3_Witness ==
  /\ calls >= 3
  /\ Len(ret) >= 2
  /\ keysRet # <<>>

\* C4: for a guest whose configuration has no agent == "1" (another value, or
\* no agent field), get_extra_info() returns the empty mapping, issues no
\* filesystem query and raises nothing; the record is the configuration.
C4_AgentOffGivesNoExtras ==
  \A i \in 1..Len(log) :
    AgentOff(log[i].g.config) =>
      /\ log[i].out = "ok"
      /\ log[i].extra = <<>>
      /\ ~log[i].fsq
      /\ log[i].rec = log[i].g.config

\* C5: a ResourceException of one guest's filesystem query is swallowed: the
\* record built for that guest is its configuration, the pass goes on with
\* the following guests, and a get() that returns holds a record for every
\* running guest, the one of the failed guest carrying no extra value.
C5_FsFailureSwallowed ==
  /\ \A i \in 1..Len(log) :
       log[i].fsfail =>
         /\ log[i].out = "ok"
         /\ log[i].extra = <<>>
         /\ log[i].rec = log[i].g.config
  /\ pc \in {"enum", "visit", "normalise"} =>
       /\ LogGuests = SelectSeq(Gone, IsRunning)
       /\ Len(list) = Len(log)
  /\ (ret # <<>> /\ AllOk) =>
       /\ LogGuests = RunningGuests
       /\ Len(ret) = Len(log)
       /\ \A i \in 1..Len(log) :
            log[i].fsfail =>
              \A j \in 1..Len(ret[i]) :
                ret[i][j].v = IF Has(log[i].g.config, ret[i][j].k)
                              THEN Get(log[i].g.config, ret[i][j].k)
                              ELSE StrV("")

C5_Witness ==
  /\ ret # <<>>
  /\ AllOk
  /\ \E i \in 1..Len(log) : log[i].fsfail /\ i < Len(log)

Kept(d) == d.type \notin {"CDFS", "UDF"} /\ d.hasTotal

RECURSIVE SumOf(_, _)
SumOf(F(_), q) == IF Len(q) = 0 THEN 0 ELSE F(Head(q)) + SumOf(F, Tail(q))
UsedOf(d) == d.used
TotalOf(d) == d.total
UnusedOf(d) == d.total - d.used

SumFields == {"sum_used_bytes", "sum_total_bytes", "sum_unused_bytes"}

\* C6: for a report whose result is a sequence of disk entries, the three
\* sums get_extra_info() returns are the sums of used, total and total - used
\* over exactly the entries that are not CDFS or UDF and carry total-bytes,
\* and the per-mountpoint fields are those of exactly these entries.
C6_SumsOverKeptEntries ==
  \A i \in 1..Len(log) :
    (log[i].fsq /\ log[i].g.fs.kind = "disks" /\ log[i].out = "ok") =>
      LET kept == SelectSeq(log[i].g.fs.disks, Kept)
          x == log[i].extra
      IN /\ SumFields \subseteq KeySet(x)
         /\ Get(x, "sum_used_bytes") = IntV(SumOf(UsedOf, kept))
         /\ Get(x, "sum_total_bytes") = IntV(SumOf(TotalOf, kept))
         /\ Get(x, "sum_unused_bytes") = IntV(SumOf(UnusedOf, kept))
         /\ KeySet(x) \ SumFields = {kept[j].mountpoint : j \in 1..Len(kept)}

C6_Witness ==
  \E i \in 1..Len(log) :
    /\ log[i].fsq
    /\ log[i].g.fs.kind = "disks"
    /\ log[i].out = "ok"
    /\ \E d \in Range(log[i].g.fs.disks) : Kept(d)
    /\ \E d \in Range(log[i].g.fs.disks) : ~Kept(d)

\* C7: a disk entry whose total-bytes is 0 is skipped: no division fault is
\* raised, the entry yields no per-mountpoint field, and the other entries
\* of the guest are still processed.
C7_ZeroTotalSkipped ==
  \A i \in 1..Len(log) :
    (log[i].fsq /\ log[i].g.fs.kind = "disks") =>
      \A d \in Range(log[i].g.fs.disks) :
        (Kept(d) /\ d.total = 0) =>
          /\ log[i].out = "ok"
          /\ ~Has(log[i].extra, d.mountpoint)

\* C8: when vmlist.csv cannot be written, the failure leaves CSV.output and
\* main: the run ends with a non-zero exit code.
C8_WriteFailureAborts ==
  io = "IOError" => exit = "1"

RECURSIVE Dedup(_)
Dedup(q) ==
  IF Len(q) = 0 THEN <<>>
  ELSE LET Other(x) == x # Head(q)
       IN <<Head(q)>> \o Dedup(SelectSeq(Tail(q), Other))

RECURSIVE FieldsInOrder(_)
FieldsInOrder(recs) ==
  IF Len(recs) = 0 THEN <<>> ELSE KeysOf(Head(recs)) \o FieldsInOrder(Tail(recs))

\* C9: the schema keys() returns is, without duplicates, the fields of the
\* first built record in its order, then every other field in the order of
\* first discovery over the records in collection order.
C9_HeaderInDiscoveryOrder ==
  keysRet # <<>> => keysRet = Dedup(FieldsInOrder(Built))

C9_Witness ==
  /\ keysRet # <<>>
  /\ ret # <<>>
  /\ AllOk
  /\ Len(Built) >= 2
  /\ KeySet(Built[2]) \ KeySet(Built[1]) # {}
  /\ KeySet(Built[1]) \ KeySet(Built[2]) # {}

\* C10: when get() raises while building a guest's record, the accumulator
\* is left holding no records, so that a later get() on the object cannot
\* return a partial list.
C10_RaiseLeavesNoRecords ==
  err \in {"KeyError", "ZeroDivisionError"} => list = <<>>

====
